---- MODULE Spec2Model ----
(***************************************************************************)
(* PixelAlchemy: the generate-image route (POST, GET), the generateImage   *)
(* server action (three revisions) and the ImageGenerator component.       *)
(*                                                                         *)
(* Strings the code inspects (the prompt) are sequences of characters.     *)
(* Messages are sequences of string tokens, so that a template literal     *)
(* `a ${x} b` is <<"a ", x, " b">> and "the message carries x" is          *)
(* membership.  null / undefined messages are <<>>, the empty string is    *)
(* <<"">>.  Blob URLs are positive integers, a null URL is NullUrl.        *)
(***************************************************************************)
EXTENDS Integers, Sequences, FiniteSets, TLC

\* ---- bounds ----
MaxSubmits == 2
MaxDirect == 2
MaxInitBlobs == 1

VARIABLES
  inputText, isLoading, imageURL, error, savedImages, loadingImages,
  uiCall, inflight, submits, listReq,
  bridge, post, blobs, rev, directs

vars == <<inputText, isLoading, imageURL, error, savedImages, loadingImages,
          uiCall, inflight, submits, listReq,
          bridge, post, blobs, rev, directs>>

uiVars == <<inputText, isLoading, imageURL, error, savedImages, loadingImages,
            uiCall, inflight, submits>>

\* ---- generic helpers ----
Range(s) == {s[i] : i \in DOMAIN s}

NullUrl == 0
NullMsg == <<>>

\* JavaScript truthiness of a message string (null, undefined and "" are falsy)
TruthyMsg(m) == m # <<>> /\ m # <<"">>

\* ---- JavaScript values carried in a request body ----
Undefined == [t |-> "undefined", s |-> <<>>, n |-> 0]
JsNull == [t |-> "null", s |-> <<>>, n |-> 0]
JsStr(s) == [t |-> "str", s |-> s, n |-> 0]
JsNum(n) == [t |-> "num", s |-> <<>>, n |-> n]

\* !v
Falsy(v) ==
  \/ v.t = "undefined"
  \/ v.t = "null"
  \/ v.t = "str" /\ v.s = <<>>
  \/ v.t = "num" /\ v.n = 0

\* ---- thrown values ----
JsError(m) == [isError |-> TRUE, message |-> m]
NonError == [isError |-> FALSE, message |-> <<>>]

\* ---- JSON envelopes: keys says which fields are present ----
Envelope(keys, success, url, msg, urls) ==
  [keys |-> keys,
   success |-> ("success" \in keys /\ success),
   imageUrl |-> IF "imageUrl" \in keys THEN url ELSE NullUrl,
   error |-> IF "error" \in keys THEN msg ELSE NullMsg,
   imageUrls |-> IF "imageUrls" \in keys THEN urls ELSE <<>>]

EmptyEnvelope == Envelope({}, FALSE, NullUrl, NullMsg, <<>>)

Has(data, k) == k \in data.keys

\* ---- HTTP ----
\* Response.ok
Ok(status) == status >= 200 /\ status <= 299

\* Response.statusText
StatusText(status) ==
  CASE status = 200 -> "OK"
    [] status = 400 -> "Bad Request"
    [] status = 404 -> "Not Found"
    [] status = 500 -> "Internal Server Error"
    [] status = 502 -> "Bad Gateway"
    [] OTHER -> ""

HttpResponse(status, body) == [status |-> status, body |-> body]
NoResponse == HttpResponse(0, EmptyEnvelope)

\* ---- request bodies of POST ----
Body(kind, text) == [kind |-> kind, text |-> text]
\* JSON.stringify({text}) as read back by request.json(): a key whose value
\* is undefined is dropped, any other value is kept
Stringify(text) == Body("object", text)

Prompts == {<<>>, <<" ">>, <<"a">>}

DirectBodies ==
  {Body("unparsable", Undefined), Body("null", Undefined),
   Body("object", Undefined), Body("object", JsNull),
   Body("object", JsNum(42)), Body("object", JsNum(0)),
   Body("object", JsStr(<<>>)), Body("object", JsStr(<<" ", " ">>)),
   Body("object", JsStr(<<" ", "a", " ">>))}

ActionArguments ==
  {Undefined, JsNum(42), JsStr(<<>>), JsStr(<<" ">>), JsStr(<<"a">>)}

\* ---- the image provider and the blob store, as seen by POST ----
ProviderThrow == [kind |-> "throw", status |-> 0, text |-> ""]
ProviderResponse(status, text) == [kind |-> "response", status |-> status, text |-> text]
NoProvider == [kind |-> "none", status |-> 0, text |-> ""]

ProviderOutcomes ==
  {ProviderThrow, ProviderResponse(200, ""),
   ProviderResponse(502, "Bad Gateway"), ProviderResponse(404, "model not found")}

StoreOutcomes == {"ok", "error", "nonerror"}

\* a catch block that sends error.message whatever was thrown: a value that
\* is not an Error has none, and JSON drops the undefined field
PostCatchMessageOnly(e) ==
  HttpResponse(500,
    Envelope((IF e.isError THEN {"success", "error", "details"} ELSE {"success"}),
             FALSE, NullUrl, e.message, <<>>))

\* ---- POST /api/generate-image ----
\* the catch block of POST
PostCatch(e) ==
  HttpResponse(500,
    Envelope({"success", "error"} \cup (IF e.isError THEN {"details"} ELSE {}),
             FALSE, NullUrl,
             IF e.isError THEN e.message ELSE <<"Failed to generate image">>,
             <<>>))

\* NextResponse.json({success: true, imageUrl: blob.url})
PostSuccess(url) ==
  HttpResponse(200, Envelope({"success", "imageUrl"}, TRUE, url, NullMsg, <<>>))

\* the validation of POST: !text || typeof text !== "string"
Rejected(text) == Falsy(text) \/ text.t # "str"

\* `HTTP error status: ${response.status}, message: ${errorMsg}`
ProviderErrorMessage(status, text) ==
  <<"HTTP error status: ", ToString(status), ", message: ", text>>

IdlePost ==
  [pc |-> "idle", origin |-> "none", body |-> Body("object", Undefined),
   fetches |-> 0, puts |-> 0, provider |-> NoProvider, blobUrl |-> NullUrl,
   response |-> NoResponse]

\* POST up to the provider fetch: parse, destructure, validate, fetch
PostBegin(origin, body) ==
  LET p == [IdlePost EXCEPT !.origin = origin, !.body = body] IN
  IF body.kind = "unparsable"
    THEN [p EXCEPT !.pc = "responded",
                   !.response = PostCatch(JsError(<<"Unexpected token in JSON">>))]
  ELSE IF body.kind = "null"
    THEN [p EXCEPT !.pc = "responded",
                   !.response = PostCatch(JsError(<<"Cannot destructure property 'text'">>))]
  ELSE IF Rejected(body.text)
    THEN [p EXCEPT !.pc = "responded",
                   !.response = PostCatch(JsError(<<"Invalid prompt, you need to provide a string.">>))]
  ELSE [p EXCEPT !.pc = "fetching", !.fetches = 1]

\* POST without the response.ok check: the body is stored whatever the status
PostAfterFetchUnchecked(p, out) ==
  LET q == [p EXCEPT !.provider = out] IN
  IF out.kind = "throw"
    THEN [q EXCEPT !.pc = "responded",
                   !.response = PostCatch(JsError(<<"fetch failed">>))]
  ELSE [q EXCEPT !.pc = "putting", !.puts = p.puts + 1]

\* POST from the provider's answer to the put call
PostAfterFetch(p, out) ==
  LET q == [p EXCEPT !.provider = out] IN
  IF out.kind = "throw"
    THEN [q EXCEPT !.pc = "responded",
                   !.response = PostCatch(JsError(<<"fetch failed">>))]
  ELSE IF ~Ok(out.status)
    THEN [q EXCEPT !.pc = "responded",
                   !.response = PostCatch(JsError(ProviderErrorMessage(out.status, out.text)))]
  ELSE [q EXCEPT !.pc = "putting", !.puts = p.puts + 1]

\* POST from the store's answer to the response
PostAfterPut(p, out, url) ==
  IF out = "ok"
    THEN [p EXCEPT !.pc = "responded", !.blobUrl = url, !.response = PostSuccess(url)]
  ELSE IF out = "error"
    THEN [p EXCEPT !.pc = "responded",
                   !.response = PostCatch(JsError(<<"Vercel Blob: put failed">>))]
  ELSE [p EXCEPT !.pc = "responded", !.response = PostCatch(NonError)]

\* ---- GET /api/generate-image ----
\* blobs.map((blob) => blob.url), or [] when there is no blob
GetSuccess(bs) ==
  HttpResponse(200,
    Envelope({"success", "imageUrls"}, TRUE, NullUrl, NullMsg,
             IF Len(bs) = 0 THEN <<>> ELSE [i \in 1..Len(bs) |-> bs[i].url]))

GetCatch(e) ==
  HttpResponse(500,
    Envelope({"success", "error"}, FALSE, NullUrl,
             IF TruthyMsg(e.message) THEN e.message ELSE <<"Fail fetching images">>,
             <<>>))

\* ---- generateImage, the server action ----
Revisions == {"actions/generateImage.ts", "part_000", "part_001"}

\* what the fetch of generateImage yields; parsable: the body can be read and
\* parsed
FetchThrow == [kind |-> "throw", response |-> NoResponse, parsable |-> FALSE]
FetchResponse(r, parsable) == [kind |-> "response", response |-> r, parsable |-> parsable]

Return(value) == [kind |-> "return", value |-> value, err |-> NonError]
Throw(e) == [kind |-> "throw", value |-> EmptyEnvelope, err |-> e]
NoOutcome == [kind |-> "none", value |-> EmptyEnvelope, err |-> NonError]

\* `HTTP error! status: ${response.status}` in actions/generateImage.ts,
\* `HTTP error! status: ${response.statusText}` in the two other revisions
BridgeStatusMessage(r, status) ==
  <<"HTTP error! status: ",
    IF r = "actions/generateImage.ts" THEN ToString(status) ELSE StatusText(status)>>

\* the try block of generateImage; part_000 awaits response.text() before it
\* throws for a non-success status, and that read can fail too
BridgeTry(r, out) ==
  IF out.kind = "throw" THEN Throw(JsError(<<"fetch failed">>))
  ELSE IF ~Ok(out.response.status)
    THEN IF r = "part_000" /\ ~out.parsable
           THEN Throw(JsError(<<"body stream failed">>))
           ELSE Throw(JsError(BridgeStatusMessage(r, out.response.status)))
  ELSE IF ~out.parsable THEN Throw(JsError(<<"Unexpected end of JSON input">>))
  ELSE Return(out.response.body)

\* the catch block of generateImage
BridgeCatch(r, e) ==
  Return(Envelope({"success", "error"}, FALSE, NullUrl,
                  IF e.isError THEN e.message
                  ELSE IF r = "part_000" THEN <<"Failed attempt to generate image">>
                  ELSE <<"Failed attemp to generate image">>,
                  <<>>))

\* generateImage whose catch block rethrows
generateImageRethrows(r, out) == BridgeTry(r, out)

generateImage(r, out) ==
  LET t == BridgeTry(r, out) IN
  IF t.kind = "throw" THEN BridgeCatch(r, t.err) ELSE t

IdleBridge ==
  [pc |-> "idle", origin |-> "none", text |-> Undefined, seen |-> FetchThrow,
   out |-> NoOutcome]

\* ---- ImageGenerator, the component ----
NoCall == [state |-> "none", text |-> <<>>, out |-> NoOutcome]

\* data.imageUrl || []
ImageUrlOrEmpty(data) ==
  IF Has(data, "imageUrl") /\ data.imageUrl # NullUrl THEN data.imageUrl ELSE <<>>

\* what the try block of handleSubmit throws for a settled call, if anything
SubmitThrown(out) ==
  IF out.kind = "throw" THEN out
  ELSE IF ~out.value.success
    THEN Throw(JsError(IF TruthyMsg(out.value.error) THEN out.value.error
                       ELSE <<"Failed trying to generate the Image">>))
  ELSE IF out.value.imageUrl = NullUrl
    THEN Throw(JsError(<<"No image URL was received">>))
  ELSE NoOutcome

\* [...prev, result.imageUrl]
PrependAtEnd(url, prev) == prev \o <<url>>

\* [result.imageUrl, ...prev]
Prepend(url, prev) == <<url>> \o prev

SentList == [pc |-> "sent", thrown |-> FALSE, response |-> NoResponse]

InitialStores == {[i \in 1..n |-> [url |-> i]] : n \in 0..MaxInitBlobs}

Init ==
  /\ inputText = <<>>
  /\ isLoading = FALSE
  /\ imageURL = NullUrl
  /\ error = NullMsg
  /\ savedImages = <<>>
  /\ loadingImages = TRUE
  /\ uiCall = NoCall
  /\ inflight = 0
  /\ submits = 0
  /\ listReq = SentList
  /\ bridge = IdleBridge
  /\ post = IdlePost
  /\ blobs \in InitialStores
  /\ rev \in Revisions
  /\ directs = 0

\* onChange of the input, which is disabled while isLoading
SetInputText(t) ==
  /\ ~isLoading
  /\ t # inputText
  /\ inputText' = t
  /\ UNCHANGED <<isLoading, imageURL, error, savedImages, loadingImages,
                 uiCall, inflight, submits, listReq, bridge, post, blobs, rev, directs>>

\* handleSubmit behind a submit button that is never disabled
HandleSubmitAlwaysEnabled ==
  /\ submits < MaxSubmits
  /\ isLoading' = TRUE
  /\ imageURL' = NullUrl
  /\ error' = NullMsg
  /\ uiCall' = [state |-> "pending", text |-> inputText, out |-> NoOutcome]
  /\ inflight' = inflight + 1
  /\ submits' = submits + 1
  /\ UNCHANGED <<inputText, savedImages, loadingImages, listReq, bridge, post,
                 blobs, rev, directs>>

\* handleSubmit up to the await; the submit button is disabled while isLoading
HandleSubmit ==
  /\ ~isLoading
  /\ submits < MaxSubmits
  /\ isLoading' = TRUE
  /\ imageURL' = NullUrl
  /\ error' = NullMsg
  /\ uiCall' = [state |-> "pending", text |-> inputText, out |-> NoOutcome]
  /\ inflight' = inflight + 1
  /\ submits' = submits + 1
  /\ UNCHANGED <<inputText, savedImages, loadingImages, listReq, bridge, post,
                 blobs, rev, directs>>

\* handleSubmit that clears isLoading at the end of try instead of in finally
HandleSubmitResumeNoFinally ==
  /\ uiCall.state = "settled"
  /\ LET thrown == SubmitThrown(uiCall.out) IN
     IF thrown.kind = "none"
       THEN /\ imageURL' = uiCall.out.value.imageUrl
            /\ savedImages' = Prepend(uiCall.out.value.imageUrl, savedImages)
            /\ inputText' = <<>>
            /\ error' = error
            /\ isLoading' = FALSE
       ELSE /\ error' = IF thrown.err.isError THEN thrown.err.message
                        ELSE <<"Not able to generate the image">>
            /\ UNCHANGED <<imageURL, savedImages, inputText, isLoading>>
  /\ uiCall' = NoCall
  /\ UNCHANGED <<loadingImages, inflight, submits, listReq, bridge, post, blobs,
                 rev, directs>>

\* handleSubmit after the await: the rest of try, catch and finally
HandleSubmitResume ==
  /\ uiCall.state = "settled"
  /\ LET thrown == SubmitThrown(uiCall.out) IN
     IF thrown.kind = "none"
       THEN /\ imageURL' = uiCall.out.value.imageUrl
            /\ savedImages' = Prepend(uiCall.out.value.imageUrl, savedImages)
            /\ inputText' = <<>>
            /\ error' = error
       ELSE /\ error' = IF thrown.err.isError THEN thrown.err.message
                        ELSE <<"Not able to generate the image">>
            /\ UNCHANGED <<imageURL, savedImages, inputText>>
  /\ isLoading' = FALSE
  /\ uiCall' = NoCall
  /\ UNCHANGED <<loadingImages, inflight, submits, listReq, bridge, post, blobs,
                 rev, directs>>

\* the call of the server action never reaches the server: the promise rejects
CallRejects ==
  /\ uiCall.state = "pending"
  /\ bridge.pc = "idle"
  /\ uiCall' = [uiCall EXCEPT !.state = "settled",
                              !.out = Throw(JsError(<<"Failed to fetch">>))]
  /\ inflight' = inflight - 1
  /\ UNCHANGED <<inputText, isLoading, imageURL, error, savedImages, loadingImages,
                 submits, listReq, bridge, post, blobs, rev, directs>>

\* generateImage(text) starts on the server and issues its fetch
BridgeInvoke ==
  /\ uiCall.state = "pending"
  /\ bridge.pc = "idle"
  /\ bridge' = [IdleBridge EXCEPT !.pc = "fetching", !.origin = "component",
                                  !.text = JsStr(uiCall.text)]
  /\ UNCHANGED <<uiVars, listReq, post, blobs, rev, directs>>

\* generateImage is a public server action: another client calls it, with any
\* argument
ActionCall(text) ==
  /\ uiCall.state = "none"
  /\ bridge.pc = "idle"
  /\ directs < MaxDirect
  /\ bridge' = [IdleBridge EXCEPT !.pc = "fetching", !.origin = "client",
                                  !.text = text]
  /\ directs' = directs + 1
  /\ UNCHANGED <<uiVars, listReq, post, blobs, rev>>

\* generateImage settles with the outcome of its fetch
BridgeSettle(out) ==
  /\ bridge' = [bridge EXCEPT !.pc = "idle", !.seen = out,
                              !.out = generateImage(rev, out)]
  /\ IF bridge.origin = "component"
       THEN /\ uiCall' = [uiCall EXCEPT !.state = "settled",
                                        !.out = generateImage(rev, out)]
            /\ inflight' = inflight - 1
       ELSE UNCHANGED <<uiCall, inflight>>

\* the fetch of generateImage fails before the handler is reached
BridgeFetchThrows ==
  /\ bridge.pc = "fetching"
  /\ BridgeSettle(FetchThrow)
  /\ UNCHANGED <<inputText, isLoading, imageURL, error, savedImages, loadingImages,
                 submits, listReq, post, blobs, rev, directs>>

\* POST is entered with the body generateImage sent
PostFromBridge ==
  /\ bridge.pc = "fetching"
  /\ post.pc = "idle"
  /\ post' = PostBegin("bridge", Stringify(bridge.text))
  /\ bridge' = [bridge EXCEPT !.pc = "waiting"]
  /\ UNCHANGED <<uiVars, listReq, blobs, rev, directs>>

\* POST is entered by another HTTP client, with any body
PostDirect(body) ==
  /\ post.pc = "idle"
  /\ directs < MaxDirect
  /\ post' = PostBegin("direct", body)
  /\ directs' = directs + 1
  /\ UNCHANGED <<uiVars, listReq, bridge, blobs, rev>>

\* the provider fetch of POST settles
ProviderAnswers(out) ==
  /\ post.pc = "fetching"
  /\ post' = PostAfterFetch(post, out)
  /\ UNCHANGED <<uiVars, listReq, bridge, blobs, rev, directs>>

\* the put of POST settles; a stored blob gets a fresh url
StoreAnswers(out) ==
  /\ post.pc = "putting"
  /\ post' = PostAfterPut(post, out, Len(blobs) + 1)
  /\ blobs' = IF out = "ok" THEN Append(blobs, [url |-> Len(blobs) + 1]) ELSE blobs
  /\ UNCHANGED <<uiVars, listReq, bridge, rev, directs>>

\* generateImage reads the handler's response (the body may fail to parse)
BridgeReceives(parsable) ==
  /\ bridge.pc = "waiting"
  /\ post.pc = "responded"
  /\ post.origin = "bridge"
  /\ BridgeSettle(FetchResponse(post.response, parsable))
  /\ post' = IdlePost
  /\ UNCHANGED <<inputText, isLoading, imageURL, error, savedImages, loadingImages,
                 submits, listReq, blobs, rev, directs>>

\* the other client reads its response
DirectReceives ==
  /\ post.pc = "responded"
  /\ post.origin = "direct"
  /\ post' = IdlePost
  /\ UNCHANGED <<uiVars, listReq, bridge, blobs, rev, directs>>

\* GET answers the list request of the component
GetAnswers ==
  /\ listReq.pc = "sent"
  /\ \/ listReq' = [listReq EXCEPT !.pc = "settled", !.response = GetSuccess(blobs)]
     \/ \E e \in {JsError(<<"Vercel Blob: list failed">>), JsError(<<"">>)} :
          listReq' = [listReq EXCEPT !.pc = "settled", !.response = GetCatch(e)]
  /\ UNCHANGED <<uiVars, bridge, post, blobs, rev, directs>>

\* the fetch of the list request (or response.json()) throws
ListFetchThrows ==
  /\ listReq.pc = "sent"
  /\ listReq' = [listReq EXCEPT !.pc = "settled", !.thrown = TRUE]
  /\ UNCHANGED <<uiVars, bridge, post, blobs, rev, directs>>

\* fetcheSavedImages after its awaits: the rest of try, catch and finally
fetcheSavedImages ==
  /\ listReq.pc = "settled"
  /\ IF ~listReq.thrown /\ listReq.response.body.success
       THEN /\ savedImages' = ImageUrlOrEmpty(listReq.response.body)
            /\ error' = error
       ELSE /\ error' = <<"Unable to load images">>
            /\ savedImages' = savedImages
  /\ loadingImages' = FALSE
  /\ listReq' = [listReq EXCEPT !.pc = "done"]
  /\ UNCHANGED <<inputText, isLoading, imageURL, uiCall, inflight, submits,
                 bridge, post, blobs, rev, directs>>

\* generateImage as a prop of the component: any function of the declared type
PropUrls == {1, 2}

PropOutcomes ==
  {Return(Envelope({"success"} \cup k, ok, u, <<"generation failed">>, <<>>)) :
     ok \in BOOLEAN, k \in SUBSET {"imageUrl", "error"}, u \in PropUrls}
  \cup {Throw(JsError(<<"Failed to fetch">>)), Throw(NonError)}

\* the promise returned by the prop settles
PropSettles(out) ==
  /\ uiCall.state = "pending"
  /\ uiCall' = [uiCall EXCEPT !.state = "settled", !.out = out]
  /\ inflight' = inflight - 1
  /\ UNCHANGED <<inputText, isLoading, imageURL, error, savedImages, loadingImages,
                 submits, listReq, bridge, post, blobs, rev, directs>>

\* the application: the component, the server action and the two handlers
Next ==
  \/ \E t \in Prompts : SetInputText(t)
  \/ HandleSubmit
  \/ HandleSubmitResume
  \/ CallRejects
  \/ BridgeInvoke
  \/ BridgeFetchThrows
  \/ PostFromBridge
  \/ \E o \in ProviderOutcomes : ProviderAnswers(o)
  \/ \E o \in StoreOutcomes : StoreAnswers(o)
  \/ \E ok \in BOOLEAN : BridgeReceives(ok)
  \/ GetAnswers
  \/ ListFetchThrows
  \/ fetcheSavedImages

Spec == Init /\ [][Next]_vars

\* the server's entry points under any client: POST with any body, the server
\* action with any argument
ServerNext ==
  \/ \E b \in DirectBodies : PostDirect(b)
  \/ DirectReceives
  \/ \E t \in ActionArguments : ActionCall(t)
  \/ BridgeFetchThrows
  \/ PostFromBridge
  \/ \E o \in ProviderOutcomes : ProviderAnswers(o)
  \/ \E o \in StoreOutcomes : StoreAnswers(o)
  \/ \E ok \in BOOLEAN : BridgeReceives(ok)

ServerSpec == Init /\ [][ServerNext]_vars

\* the component alone, with any generateImage prop
ComponentNext ==
  \/ \E t \in Prompts : SetInputText(t)
  \/ HandleSubmit
  \/ \E o \in PropOutcomes : PropSettles(o)
  \/ HandleSubmitResume
  \/ GetAnswers
  \/ ListFetchThrows
  \/ fetcheSavedImages

ComponentSpec == Init /\ [][ComponentNext]_vars

\* the continuations of the component run once their promise has settled
LiveSpec ==
  Spec /\ WF_vars(HandleSubmitResume) /\ WF_vars(fetcheSavedImages)

TypeOK ==
  /\ inputText \in Prompts
  /\ isLoading \in BOOLEAN
  /\ loadingImages \in BOOLEAN
  /\ inflight \in 0..MaxSubmits
  /\ submits \in 0..MaxSubmits
  /\ directs \in 0..MaxDirect
  /\ uiCall.state \in {"none", "pending", "settled"}
  /\ bridge.pc \in {"idle", "fetching", "waiting"}
  /\ post.pc \in {"idle", "fetching", "putting", "responded"}
  /\ listReq.pc \in {"sent", "settled", "done"}
  /\ rev \in Revisions

\* ---- properties ----

\* the `text` field of a request body, undefined when there is none
TextOf(body) == IF body.kind = "object" THEN body.text ELSE Undefined

\* trimming, as the prompt invariant states it
IsWhitespace(c) == c = " "

RECURSIVE TrimStart(_)
TrimStart(s) ==
  IF s = <<>> THEN <<>>
  ELSE IF IsWhitespace(Head(s)) THEN TrimStart(Tail(s)) ELSE s

RECURSIVE TrimEnd(_)
TrimEnd(s) ==
  IF s = <<>> THEN <<>>
  ELSE IF IsWhitespace(s[Len(s)]) THEN TrimEnd(SubSeq(s, 1, Len(s) - 1)) ELSE s

\* String.prototype.trim
Trim(s) == TrimEnd(TrimStart(s))

\* `text` is missing, is not a string, or is empty after trimming
MissingOrBlank(body) ==
  TextOf(body).t # "str" \/ Trim(TextOf(body).s) = <<>>

\* C1: a POST whose `text` is missing, not a string or empty after trimming
\* (whitespace-only included) is answered with success:false and makes no
\* outbound call: no provider fetch, no store put.
C1_RejectsBeforeAnyCall ==
  (post.pc # "idle" /\ MissingOrBlank(post.body)) =>
    /\ post.fetches = 0
    /\ post.puts = 0
    /\ post.pc = "responded"
    /\ ~post.response.body.success

\* the GenerationResult invariant of an envelope
GenerationResultOK(e) ==
  /\ e.success => Has(e, "imageUrl") /\ e.imageUrl # NullUrl /\ ~Has(e, "error")
  /\ ~e.success => Has(e, "error") /\ ~Has(e, "imageUrl")

\* C2: every result returned by POST and by generateImage satisfies the
\* GenerationResult invariant: success=true implies imageUrl present and error
\* absent, success=false implies error present and imageUrl absent.
C2_ResultInvariant ==
  /\ post.pc = "responded" => GenerationResultOK(post.response.body)
  /\ bridge.out.kind = "return" => GenerationResultOK(bridge.out.value)

C2_Witness ==
  /\ bridge.out.kind = "return"
  /\ bridge.out.value.success
  /\ post.pc = "responded"
  /\ ~post.response.body.success

\* C3: POST answers a validation failure (missing, non-string or empty text)
\* with HTTP status 400, and a provider failure, a store failure or any other
\* failure with HTTP status 500.
C3_StatusByFailureKind ==
  (post.pc = "responded" /\ ~post.response.body.success) =>
    IF post.body.kind = "object" /\ Rejected(post.body.text)
      THEN post.response.status = 400
      ELSE post.response.status = 500

C5_BridgeNeverThrows ==
  /\ bridge.out.kind # "throw"
  /\ bridge.out.kind = "return" =>
       /\ (bridge.seen.kind = "throw" \/ ~Ok(bridge.seen.response.status)
             \/ ~bridge.seen.parsable) =>
            /\ ~bridge.out.value.success
            /\ Has(bridge.out.value, "error")
            /\ TruthyMsg(bridge.out.value.error)
       /\ bridge.out.value.success =>
            bridge.seen.kind = "response" /\ Ok(bridge.seen.response.status)

C5_Witness ==
  /\ bridge.out.kind = "return"
  /\ bridge.seen.kind = "response"
  /\ ~Ok(bridge.seen.response.status)
  /\ ~bridge.out.value.success

\* C6: when GET answers the list request with success:true and the list L in
\* imageUrls, fetcheSavedImages replaces savedImages by exactly L; when the
\* request fails, savedImages is left as it was and error is the unable-to-load
\* message.
C6_ListReplacesGallery ==
  [][(listReq.pc = "settled" /\ listReq'.pc = "done") =>
       IF ~listReq.thrown /\ listReq.response.body.success
         THEN savedImages' = listReq.response.body.imageUrls
         ELSE savedImages' = savedImages /\ error' = <<"Unable to load images">>]_vars

\* the settled call is a result with success=true and an imageUrl
Generated(out) ==
  out.kind = "return" /\ out.value.success /\ Has(out.value, "imageUrl")

\* C7: when handleSubmit resumes, it changes savedImages iff the result has
\* success=true and an imageUrl: then the url is displayed, is the new first
\* element of savedImages before all earlier elements, and the prompt is
\* cleared; otherwise savedImages and the prompt are unchanged, the displayed
\* image stays null and an error message is set.
C7_SubmitFrame ==
  [][(uiCall.state = "settled" /\ uiCall'.state = "none") =>
       IF Generated(uiCall.out)
         THEN /\ imageURL' = uiCall.out.value.imageUrl
              /\ savedImages' = <<uiCall.out.value.imageUrl>> \o savedImages
              /\ savedImages' # savedImages
              /\ inputText' = <<>>
         ELSE /\ savedImages' = savedImages
              /\ inputText' = inputText
              /\ imageURL = NullUrl
              /\ imageURL' = NullUrl
              /\ TruthyMsg(error')]_vars

C7_Witness ==
  /\ uiCall.state = "none"
  /\ ~isLoading
  /\ Len(savedImages) = 2
  /\ savedImages[1] # savedImages[2]
  /\ imageURL = savedImages[1]
  /\ inputText = <<>>

\* C8: at most one generateImage call of the component is in flight, and
\* isLoading is true for as long as one is.
C8_OneOutstandingCall ==
  /\ inflight <= 1
  /\ inflight = 1 => isLoading
  /\ uiCall.state = "pending" <=> inflight = 1

C8_Witness ==
  /\ inflight = 1
  /\ submits = 2
  /\ bridge.pc = "waiting"

\* C9: once a submit's call has settled, isLoading is eventually false again;
\* once the list request has settled, loadingImages is eventually false and
\* stays false.
C9_BackToIdle ==
  /\ (uiCall.state = "settled") ~> ~isLoading
  /\ (listReq.pc = "settled") ~> [](~loadingImages)

C9_Witness ==
  /\ submits = 2
  /\ uiCall.state = "none"
  /\ ~isLoading
  /\ listReq.pc = "done"
  /\ ~loadingImages
  /\ TruthyMsg(error)

\* C10: a url that a successful generation has prepended to savedImages stays
\* in savedImages for the rest of the session, under every interleaving with
\* the list request.  (Every element of savedImages was prepended by a
\* generation: the list response never contributes one.)
C10_GeneratedUrlStays ==
  [][\A u \in Range(savedImages) : u \in Range(savedImages')]_vars

====
